---- MODULE Spec2Model ----
(***************************************************************************)
(* Model of the Tesserae asset store (ImageUploadHandler in                *)
(* src/color_extraction.py), of the three analyzers (ColorExtractor,       *)
(* PatternRecognizer, TypographyAnalyzer) and of the process_moodboard     *)
(* entry point and the exports (src/tesserae_ui_final.py).                 *)
(*                                                                         *)
(* Time is counted in seconds, the resolution of the timestamp that        *)
(* _generate_safe_filename puts into a file id.  The managed directory is  *)
(* a function from file ids to file contents, the metadata file            *)
(* upload_metadata.json a function from file ids to records.               *)
(***************************************************************************)
EXTENDS Integers, Sequences, FiniteSets, TLC

\* ------------------------------------------------------------------ bounds

\* How far past the end of one retention window the clock may run.
MaxExtra == 1

\* How many process_upload calls may get as far as the copy step.
MaxUploads == 2

\* How many calls may meet a failure of the file system or of the image library.
MaxFaults == 1

\* ------------------------------------------------------- program constants

\* timedelta(days=30)
RetentionDays == 30

\* max_size_mb=10
MaxSizeMb == 10

Retention == RetentionDays * 24 * 60 * 60

max_size_bytes == MaxSizeMb * 1024 * 1024

allowed_formats == {".jpg", ".jpeg", ".png", ".webp"}

MaxClock == Retention + MaxExtra

\* The instants the clock is observed at: the seconds from time 0 on, and those
\* from the end of the retention window of an asset ingested at time 0 on.
ClockValues == {k * Retention + e : k \in 0..1, e \in 0..MaxExtra}

None == "None"

\* get_image_for_processing returning None instead of an image
NoImage == 0

\* ------------------------------------------------------------------ inputs

\* temp_path of process_moodboard
GradioTempName == "temp_gradio_upload.png"

\* File names a caller may hand to process_upload directly.
Names == {"board.PNG", "notes.gif"}

\* Images are numbered: the n-th ingest that gets as far as the copy step
\* brings image n (its pixels, width, height and format).

\* Path(name).suffix
Suffix(name) ==
    CASE name = "temp_gradio_upload.png" -> ".png"
      [] name = "board.PNG" -> ".PNG"
      [] name = "notes.gif" -> ".gif"

\* str.lower() on the suffixes above
Lower(ext) ==
    CASE ext = ".PNG" -> ".png"
      [] OTHER -> ext

\* hashlib.md5(name.encode()).hexdigest()[:8]
Md5Prefix(name) ==
    CASE name = "temp_gradio_upload.png" -> "32da47e5"
      [] name = "board.PNG" -> "d8839092"
      [] name = "notes.gif" -> "99537d46"

\* A file a caller hands to process_upload.
Sources ==
    [name : Names,
     exists : BOOLEAN,
     size : {max_size_bytes, max_size_bytes + 1},
     verifies : BOOLEAN]

\* What the file system and PIL may do during one ingest.
CopyOutcomes == {"ok", "fail_nofile", "fail_partial"}
StripOutcomes == {"ok", "failed", "corrupted"}

\* ------------------------------------------------------------------- state

VARIABLES
    clock,            \* datetime.now(), in seconds
    files,            \* the managed directory: file id -> content
    metadata,         \* upload_metadata.json: file id -> record
    current_results,  \* the shared results bag of the interface
    ret,              \* what the last finished call did and returned
    uploads,          \* number of ingests that reached the copy step
    faults,           \* number of calls that met a file system or PIL failure
    ingested,         \* history: the assets whose ingest returned success
    swept,            \* history: the file ids whose records a concurrent sweep removed
    threads           \* per thread: position and locals of a call in progress

vars == <<clock, files, metadata, current_results, ret, uploads, faults, ingested,
          swept, threads>>

Threads == {1, 2}

\* ------------------------------------------------------- pure functions

\* strftime("%Y%m%d_%H%M%S") keeps the whole seconds of the clock, which is
\* all the clock of this model has.
Timestamp(now) == now

_generate_safe_filename(now, original_name) ==
    <<"moodboard", Timestamp(now), Md5Prefix(original_name), Lower(Suffix(original_name))>>

validate_image_format_first(src) ==
    IF ~src.exists THEN "NotFound"
    ELSE IF Lower(Suffix(src.name)) \notin allowed_formats THEN "UnsupportedFormat"
    ELSE IF src.size > max_size_bytes THEN "TooLarge"
    ELSE IF ~src.verifies THEN "Corrupt"
    ELSE "Valid"

\* "Valid" or the reason of the failure, in the order of the checks.
validate_image(src) ==
    IF ~src.exists THEN "NotFound"
    ELSE IF src.size > max_size_bytes THEN "TooLarge"
    ELSE IF Lower(Suffix(src.name)) \notin allowed_formats THEN "UnsupportedFormat"
    ELSE IF ~src.verifies THEN "Corrupt"
    ELSE "Valid"

\* upload_time + timedelta(days=30)
DeletionDate(upload_time) == upload_time + Retention

\* now >= deletion_date
IsExpired(now, rec) == now >= rec.deletion_date

Restrict(f, S) == [x \in S |-> f[x]]

Put(f, k, v) == [x \in DOMAIN f \cup {k} |-> IF x = k THEN v ELSE f[x]]

\* The file ids the loop of cleanup_expired finds expired in all_metadata.
ExpiredIds_first_only(all_metadata, now) ==
    LET expired == {f \in DOMAIN all_metadata : IsExpired(now, all_metadata[f])}
    IN  IF expired = {} THEN {} ELSE {CHOOSE f \in expired : TRUE}

ExpiredIds(all_metadata, now) ==
    {f \in DOMAIN all_metadata : IsExpired(now, all_metadata[f])}

\* file_path.exists() / Image.open(file_path) of get_image_for_processing
Load(dir, file_id) ==
    IF file_id \notin DOMAIN dir THEN NoImage
    ELSE IF ~dir[file_id].readable THEN NoImage
    ELSE dir[file_id].img

\* current_results before any run: every field None.  A field set by a run
\* holds what that run derived from its image, named by the image.
NoResults ==
    [palette |-> NoImage, patterns |-> NoImage, typography |-> NoImage,
     color_tokens |-> NoImage, pattern_tokens |-> NoImage,
     typography_tokens |-> NoImage, file_id |-> <<>>]

\* Every call sets ret.op to its own name, and only Tick leaves ret alone.
\* resweep and prev_deleted are history: whether the call before this one was a
\* sweep that read the same clock value, and what that sweep deleted.
\* rejected holds the source of an ingest that validation rejected.
NoRet ==
    [op |-> "none", rejected |-> <<>>, consent |-> TRUE, status |-> None,
     file_id |-> <<>>, image |-> NoImage, now |-> 0, deleted |-> {},
     resweep |-> FALSE, prev_deleted |-> {}]

Returned(op, status) == [NoRet EXCEPT !.op = op, !.status = status]

\* The locals of a call in progress: its position, the file id, image and name
\* of an ingest, upload_time, the all_metadata it has read, the now, the
\* expired ids and the deleted_files of a sweep, and the token maps an export
\* has read.
IdleThread ==
    [pc |-> "idle", file_id |-> <<>>, img |-> NoImage, original_name |-> "",
     upload_time |-> 0, all_metadata |-> <<>>, now |-> 0, expired |-> {},
     deleted_files |-> {}, tokens |-> <<>>]

Init ==
    /\ clock = 0
    /\ files = <<>>
    /\ metadata = <<>>
    /\ current_results = NoResults
    /\ ret = NoRet
    /\ uploads = 0
    /\ faults = 0
    /\ ingested = {}
    /\ swept = {}
    /\ threads = [t \in Threads |-> IdleThread]

\* ------------------------------------------------------------ process_upload

\* The managed directory after shutil.copy2 and _strip_metadata.  A failed copy
\* leaves no file or a partial one; _strip_metadata catches its own failure,
\* which leaves the copy as it was or, when the save broke off, unreadable.
CopyAndStrip(dir, file_id, img, copy, strip) ==
    CASE copy = "fail_nofile" -> dir
      [] copy = "fail_partial" ->
            Put(dir, file_id, [img |-> img, stripped |-> FALSE, readable |-> FALSE])
      [] copy = "ok" /\ strip = "ok" ->
            Put(dir, file_id, [img |-> img, stripped |-> TRUE, readable |-> TRUE])
      [] copy = "ok" /\ strip = "failed" ->
            Put(dir, file_id, [img |-> img, stripped |-> FALSE, readable |-> TRUE])
      [] copy = "ok" /\ strip = "corrupted" ->
            Put(dir, file_id, [img |-> img, stripped |-> FALSE, readable |-> FALSE])

\* Whether process_upload gets past the copy, the strip and the Image.open
\* that reads width, height and format.
ReachesMetadata(copy, strip) == copy = "ok" /\ strip # "corrupted"

MetadataRecord(file_id, original_name, img, user_id, upload_time) ==
    [file_id |-> file_id,
     upload_time |-> upload_time,
     deletion_date |-> DeletionDate(upload_time),
     user_id |-> user_id,
     info |-> img,
     original_name |-> original_name]

\* process_upload as one call: stamp is the clock when the file name is
\* generated, upload_time the clock when the record is built.
Ingest(dir, store, src, img, user_id, stamp, upload_time, copy, strip) ==
    LET v == validate_image(src)
        file_id == _generate_safe_filename(stamp, src.name)
    IN  IF v # "Valid"
        THEN [status |-> v, file_id |-> <<>>, files |-> dir, metadata |-> store]
        ELSE IF ~ReachesMetadata(copy, strip)
        THEN [status |-> "raised", file_id |-> <<>>,
              files |-> CopyAndStrip(dir, file_id, img, copy, strip),
              metadata |-> store]
        ELSE [status |-> "success", file_id |-> file_id,
              files |-> CopyAndStrip(dir, file_id, img, copy, strip),
              metadata |-> Put(store, file_id,
                               MetadataRecord(file_id, src.name, img, user_id, upload_time))]

Asset(file_id, img, upload_time) ==
    [file_id |-> file_id, img |-> img, upload_time |-> upload_time]

\* The durations a call may take between its two readings of the clock.
Durations == {0, 1}

\* What can happen to an ingest of src: nothing when validation rejects it.
Outcomes(src) ==
    IF validate_image(src) = "Valid"
    THEN {<<c, s, d>> \in CopyOutcomes \X StripOutcomes \X Durations :
            (c = "ok" /\ s # "corrupted") \/ d = 0}
    ELSE {<<"ok", "ok", 0>>}

ProcessUpload(src, user_id, copy, strip, d) ==
    LET img == uploads + 1
        r == Ingest(files, metadata, src, img, user_id, clock, clock + d, copy, strip)
        copied == validate_image(src) = "Valid"
        fault == copied /\ ~(copy = "ok" /\ strip = "ok")
    IN  /\ clock + d \in ClockValues
        /\ copied => uploads < MaxUploads
        /\ fault => faults < MaxFaults
        /\ faults' = IF fault THEN faults + 1 ELSE faults
        /\ files' = r.files
        /\ metadata' = r.metadata
        /\ clock' = clock + d
        /\ uploads' = IF copied THEN uploads + 1 ELSE uploads
        /\ ingested' = IF r.status = "success"
                        THEN ingested \cup {Asset(r.file_id, img, clock + d)}
                        ELSE ingested
        /\ ret' = [Returned("process_upload", r.status)
                   EXCEPT !.file_id = r.file_id,
                          !.rejected = IF copied THEN <<>> ELSE <<src>>]
        /\ UNCHANGED <<current_results, swept, threads>>

\* ----------------------------------------------------------- cleanup_expired

\* The files the loop unlinks: the expired ids whose file exists.
DeletedFiles(all_metadata, now, dir) == ExpiredIds(all_metadata, now) \cap DOMAIN dir

CleanupExpired ==
    LET expired == ExpiredIds(metadata, clock)
        deleted_files == DeletedFiles(metadata, clock, files)
    IN  /\ files' = Restrict(files, DOMAIN files \ deleted_files)
        /\ metadata' = Restrict(metadata, DOMAIN metadata \ expired)
        /\ ret' = [Returned("cleanup_expired", "done")
                   EXCEPT !.now = clock,
                          !.deleted = deleted_files,
                          !.resweep = ret.op = "cleanup_expired" /\ ret.now = clock,
                          !.prev_deleted = IF ret.op = "cleanup_expired" /\ ret.now = clock
                                           THEN ret.deleted ELSE {}]
        /\ UNCHANGED <<clock, current_results, uploads, faults, ingested, swept, threads>>

\* -------------------------------------------------- get_image_for_processing

FileIds == DOMAIN files \cup DOMAIN metadata \cup {a.file_id : a \in ingested}

GetImageForProcessing(file_id) ==
    /\ ret' = [Returned("get_image_for_processing", "done")
                EXCEPT !.file_id = file_id, !.image = Load(files, file_id)]
    /\ UNCHANGED <<clock, files, metadata, current_results, uploads, faults, ingested,
                   swept, threads>>

\* ----------------------------------------------------------------- the clock

Tick(t) ==
    /\ t > clock
    /\ clock' = t
    /\ UNCHANGED <<files, metadata, current_results, ret, uploads, faults, ingested,
                   swept, threads>>

Next ==
    \/ \E src \in Sources : \E o \in Outcomes(src) :
          ProcessUpload(src, None, o[1], o[2], o[3])
    \/ CleanupExpired
    \/ \E f \in FileIds : GetImageForProcessing(f)
    \/ \E t \in ClockValues : Tick(t)

Spec == Init /\ [][Next]_vars

\* --------------------------------------------------------- process_moodboard

Refuses_never(user_consent) == FALSE

\* if not user_consent: return the privacy-policy message
Refuses(user_consent) == ~user_consent

\* The file image.save writes to temp_path: a PNG that PIL has just written.
TempSource(size) ==
    [name |-> GradioTempName, exists |-> TRUE, size |-> size, verifies |-> TRUE]

\* current_results after the seven assignments of one run.
StoredResults(img, file_id) ==
    [palette |-> img, patterns |-> img, typography |-> img,
     color_tokens |-> img, pattern_tokens |-> img, typography_tokens |-> img,
     file_id |-> file_id]

\* What can happen to one run on an image: image.save may raise, the saved file
\* may be any size, the ingest may meet a failure, and cv2.imread may fail to
\* decode the stored file (extract_palette then raises).
MoodboardOutcomes ==
    {o \in [save : BOOLEAN, size : {max_size_bytes, max_size_bytes + 1},
            copy : CopyOutcomes, strip : StripOutcomes, d : Durations,
            decode : BOOLEAN] :
       /\ (~o.save \/ o.size > max_size_bytes)
             => (o.copy = "ok" /\ o.strip = "ok" /\ o.d = 0 /\ o.decode)
       /\ ~o.save => o.size = max_size_bytes
       /\ ~ReachesMetadata(o.copy, o.strip) => (o.d = 0 /\ o.decode)}

NoOutcome ==
    [save |-> TRUE, size |-> max_size_bytes, copy |-> "ok", strip |-> "ok",
     d |-> 0, decode |-> TRUE]

ProcessMoodboard(has_image, user_consent, o) ==
    LET img == uploads + 1
        src == TempSource(o.size)
        r == Ingest(files, metadata, src, img, "gradio_test_user", clock, clock + o.d,
                    o.copy, o.strip)
        ingests == ~Refuses(user_consent) /\ has_image /\ o.save
        copied == ingests /\ validate_image(src) = "Valid"
        fault == \/ ~Refuses(user_consent) /\ has_image /\ ~o.save
                 \/ copied /\ ~(o.copy = "ok" /\ o.strip = "ok" /\ o.decode)
        status ==
            IF Refuses(user_consent) THEN "consent_required"
            ELSE IF ~has_image THEN "no_image"
            ELSE IF ~o.save THEN "error"
            ELSE IF r.status = "raised" THEN "error"
            ELSE IF r.status # "success" THEN "upload_failed"
            ELSE IF ~o.decode THEN "error"
            ELSE "ok"
    IN  /\ ~(has_image /\ ~Refuses(user_consent)) => o = NoOutcome
        /\ clock + o.d \in ClockValues
        /\ copied => uploads < MaxUploads
        /\ fault => faults < MaxFaults
        /\ faults' = IF fault THEN faults + 1 ELSE faults
        /\ uploads' = IF copied THEN uploads + 1 ELSE uploads
        /\ files' = IF ingests THEN r.files ELSE files
        /\ metadata' = IF ingests THEN r.metadata ELSE metadata
        /\ clock' = IF ingests /\ r.status = "success" THEN clock + o.d ELSE clock
        /\ ingested' = IF ingests /\ r.status = "success"
                        THEN ingested \cup {Asset(r.file_id, img, clock + o.d)}
                        ELSE ingested
        /\ current_results' = IF status = "ok"
                               THEN StoredResults(img, r.file_id)
                               ELSE current_results
        /\ ret' = [Returned("process_moodboard", status)
                   EXCEPT !.consent = user_consent,
                          !.file_id = IF status = "ok" THEN r.file_id ELSE <<>>,
                          !.image = IF status = "ok" THEN Load(r.files, r.file_id)
                                    ELSE NoImage]
        /\ UNCHANGED <<swept, threads>>

\* The interface: the analyze button, the clean-up button
\* (check_expired_images calls cleanup_expired) and the clock.
NextUI ==
    \/ \E has_image \in BOOLEAN, user_consent \in BOOLEAN, o \in MoodboardOutcomes :
          ProcessMoodboard(has_image, user_consent, o)
    \/ CleanupExpired
    \/ \E t \in ClockValues : Tick(t)

SpecUI == Init /\ [][NextUI]_vars

\* ------------------------------------------- concurrent ingests and sweeps
\* Each call is a sequence of steps of its thread; the steps of two threads
\* interleave.  A step is one access to the shared directory or metadata file.

Idle(t) == threads[t].pc = "idle"

\* The copy and strip outcomes of an ingest of src; the time its steps take is
\* the time that passes between them.
BeginOutcomes(src) == {<<o[1], o[2]>> : o \in Outcomes(src)}

\* process_upload, lines 200-216: validation, file name, copy, strip, image info.
PU_Begin(t, src, copy, strip) ==
    LET v == validate_image(src)
        img == uploads + 1
        file_id == _generate_safe_filename(clock, src.name)
        fault == v = "Valid" /\ ~(copy = "ok" /\ strip = "ok")
    IN  /\ Idle(t)
        /\ v = "Valid" => uploads < MaxUploads
        /\ fault => faults < MaxFaults
        /\ faults' = IF fault THEN faults + 1 ELSE faults
        /\ uploads' = IF v = "Valid" THEN uploads + 1 ELSE uploads
        /\ files' = IF v = "Valid" THEN CopyAndStrip(files, file_id, img, copy, strip)
                     ELSE files
        /\ IF v = "Valid" /\ ReachesMetadata(copy, strip)
           THEN /\ threads' = [threads EXCEPT ![t] =
                                 [IdleThread EXCEPT !.pc = "pu_read",
                                                    !.file_id = file_id,
                                                    !.img = img,
                                                    !.original_name = src.name]]
                /\ UNCHANGED ret
           ELSE /\ ret' = Returned("process_upload",
                                   IF v = "Valid" THEN "raised" ELSE v)
                /\ UNCHANGED threads
        /\ UNCHANGED <<clock, metadata, current_results, ingested, swept>>

\* process_upload, lines 218-235: upload_time and the read of the metadata file.
PU_Read(t) ==
    /\ threads[t].pc = "pu_read"
    /\ threads' = [threads EXCEPT ![t].pc = "pu_write",
                                  ![t].upload_time = clock,
                                  ![t].all_metadata = metadata]
    /\ UNCHANGED <<clock, files, metadata, current_results, ret, uploads, faults,
                   ingested, swept>>

\* process_upload, lines 237-249: the write of the metadata file and the return.
PU_Write(t) ==
    LET my == threads[t]
    IN  /\ my.pc = "pu_write"
        /\ metadata' = Put(my.all_metadata, my.file_id,
                           MetadataRecord(my.file_id, my.original_name, my.img, None,
                                          my.upload_time))
        /\ ingested' = ingested \cup {Asset(my.file_id, my.img, my.upload_time)}
        /\ ret' = [Returned("process_upload", "success") EXCEPT !.file_id = my.file_id]
        /\ threads' = [threads EXCEPT ![t] = IdleThread]
        /\ UNCHANGED <<clock, files, current_results, uploads, faults, swept>>

\* cleanup_expired, lines 277-278: the read of the metadata file.
CE_Read(t) ==
    /\ Idle(t)
    /\ threads' = [threads EXCEPT ![t] =
                     [IdleThread EXCEPT !.pc = "ce_scan", !.all_metadata = metadata]]
    /\ UNCHANGED <<clock, files, metadata, current_results, ret, uploads, faults,
                   ingested, swept>>

\* cleanup_expired, lines 280-292: now, and the loop over the records read.
CE_Scan(t) ==
    LET my == threads[t]
        expired == ExpiredIds(my.all_metadata, clock)
        deleted_files == DeletedFiles(my.all_metadata, clock, files)
    IN  /\ my.pc = "ce_scan"
        /\ files' = Restrict(files, DOMAIN files \ deleted_files)
        /\ threads' = [threads EXCEPT
                         ![t].pc = "ce_write",
                         ![t].now = clock,
                         ![t].expired = expired,
                         ![t].deleted_files = deleted_files,
                         ![t].all_metadata =
                             Restrict(my.all_metadata, DOMAIN my.all_metadata \ expired)]
        /\ UNCHANGED <<clock, metadata, current_results, ret, uploads, faults,
                       ingested, swept>>

\* cleanup_expired, lines 295-301: the write of the metadata file and the return.
CE_Write(t) ==
    LET my == threads[t]
    IN  /\ my.pc = "ce_write"
        /\ metadata' = my.all_metadata
        /\ swept' = swept \cup my.expired
        /\ ret' = [Returned("cleanup_expired", "done")
                   EXCEPT !.now = my.now, !.deleted = my.deleted_files]
        /\ threads' = [threads EXCEPT ![t] = IdleThread]
        /\ UNCHANGED <<clock, files, current_results, uploads, faults, ingested>>

NextConc ==
    \/ \E t \in Threads, src \in Sources : \E o \in BeginOutcomes(src) :
          PU_Begin(t, src, o[1], o[2])
    \/ \E t \in Threads : PU_Read(t)
    \/ \E t \in Threads : PU_Write(t)
    \/ \E t \in Threads : CE_Read(t)
    \/ \E t \in Threads : CE_Scan(t)
    \/ \E t \in Threads : CE_Write(t)
    \/ \E t \in ClockValues : Tick(t)

SpecConc == Init /\ [][NextConc]_vars

\* ============================================================ the analyzers
\* The three analyzers are functions of what OpenCV and scikit-learn report
\* about the stored image.  An image is given by those reports: whether
\* cv2.imread decodes it, the clustering that KMeans finds, the bounding boxes
\* of its contours, its width, its mean brightness and its text regions.

\* ------------------------------------------------------------ ColorExtractor

\* cv2.resize(image, (600, 400)): the number of pixels that are clustered
WorkingWidth == 600
WorkingHeight == 400
WorkingPixels == WorkingWidth * WorkingHeight

\* ColorExtractor(n_colors=8)
NColors == 8

\* The largest n_colors tried, and the number of equal shares the pixels are
\* dealt to the clusters in.
MaxK == 2
MaxShares == 3

\* The n_colors a caller may construct the extractor with.
KValues == -1 .. MaxK

\* cluster_centers_ after astype(int)
Centers == {<<255, 0, 0>>, <<255, 255, 255>>, <<0, 0, 0>>, <<128, 128, 128>>}

\* "#{:02x}{:02x}{:02x}".format(r, g, b)
Hex(rgb) ==
    CASE rgb = <<255, 0, 0>> -> "#ff0000"
      [] rgb = <<255, 255, 255>> -> "#ffffff"
      [] rgb = <<0, 0, 0>> -> "#000000"
      [] rgb = <<128, 128, 128>> -> "#808080"

\* colorsys.rgb_to_hls(r/255, g/255, b/255): hue in degrees, lightness and
\* saturation in thousandths.
Hls(rgb) ==
    CASE rgb = <<255, 0, 0>> -> [h |-> 0, l |-> 500, s |-> 1000]
      [] rgb = <<255, 255, 255>> -> [h |-> 0, l |-> 1000, s |-> 0]
      [] rgb = <<0, 0, 0>> -> [h |-> 0, l |-> 0, s |-> 0]
      [] rgb = <<128, 128, 128>> -> [h |-> 0, l |-> 501, s |-> 0]

_get_color_name(h, l, s) ==
    IF l < 100 THEN "Black"
    ELSE IF l > 900 THEN "White"
    ELSE IF s < 100 THEN "Gray"
    ELSE IF h < 30 THEN "Red"
    ELSE IF h < 90 THEN "Yellow"
    ELSE IF h < 150 THEN "Green"
    ELSE IF h < 210 THEN "Cyan"
    ELSE IF h < 270 THEN "Blue"
    ELSE IF h < 330 THEN "Magenta"
    ELSE "Red"

\* The role that lightness and saturation give a swatch.
DerivedRole(l, s) ==
    IF l > 900 THEN "Background"
    ELSE IF l < 100 THEN "Text/Dark"
    ELSE IF s > 500 THEN "Accent"
    ELSE "Secondary"

\* round(count / total_pixels * 100, 1), in tenths of a percent; Python rounds
\* a tie to the even neighbour.
Percentage(count, total_pixels) ==
    LET n == count * 1000
        q == n \div total_pixels
        r2 == 2 * (n % total_pixels)
    IN  IF r2 > total_pixels THEN q + 1
        ELSE IF r2 < total_pixels THEN q
        ELSE IF q % 2 = 0 THEN q ELSE q + 1

\* One entry of colors_data, before the relabelling of the first entry.
Swatch(rgb, count, total_pixels) ==
    LET hls == Hls(rgb)
    IN  [name |-> _get_color_name(hls.h, hls.l, hls.s),
         hex |-> Hex(rgb),
         rgb |-> rgb,
         hsl |-> [h |-> hls.h, s |-> hls.s \div 10, l |-> hls.l \div 10],
         percentage |-> Percentage(count, total_pixels),
         role |-> DerivedRole(hls.l, hls.s)]

ForcePrimary_never(colors_data) == colors_data

\* if colors_data: colors_data[0]['role'] = 'Primary'
ForcePrimary(colors_data) ==
    IF colors_data # <<>>
    THEN [colors_data EXCEPT ![1].role = "Primary"]
    ELSE colors_data

\* What KMeans(n_clusters=k).fit_predict may report for k >= 1: the number of
\* pixels labelled with each cluster, which may be 0, and the cluster centres.
KMeansOutcomes(k) ==
    LET shares == {s * (WorkingPixels \div MaxShares) : s \in 0..MaxShares}
        Total(counts) ==
            LET Sum[i \in 0..k] == IF i = 0 THEN 0 ELSE Sum[i - 1] + counts[i]
            IN  Sum[k]
    IN  {[counts |-> counts, centers |-> centers] :
            counts \in {c \in [1..k -> shares] : Total(c) = WorkingPixels},
            centers \in [1..k -> Centers]}

\* Counter(labels): only the labels that occur have a key.
Populated(km) == {i \in DOMAIN km.counts : km.counts[i] > 0}

\* np.argsort(ordered_counts)[::-1]: an order of the populated clusters by
\* descending count; the order among equal counts is the sort's choice.
SortedIndices(km) ==
    LET n == Cardinality(Populated(km))
    IN  {o \in [1..n -> Populated(km)] :
            /\ \A i, j \in 1..n : i # j => o[i] # o[j]
            /\ \A i \in 1..n : \A j \in 1..n :
                  i < j => km.counts[o[i]] >= km.counts[o[j]]}

\* extract_palette: work lists the steps taken before the return or the raise.
\* KMeans rejects n_clusters < 1 when fit_predict is called.
extract_palette(decodable, n_colors, km, sorted_indices) ==
    IF ~decodable
    THEN [status |-> "DecodeError", work |-> <<"imread">>, colors |-> <<>>,
          counts |-> <<>>]
    ELSE IF n_colors < 1
    THEN [status |-> "InvalidArgument",
          work |-> <<"imread", "cvtColor", "resize", "reshape", "fit_predict">>,
          colors |-> <<>>, counts |-> <<>>]
    ELSE [status |-> "ok",
          work |-> <<"imread", "cvtColor", "resize", "reshape", "fit_predict">>,
          colors |-> ForcePrimary(
                        [i \in DOMAIN sorted_indices |->
                            Swatch(km.centers[sorted_indices[i]],
                                   km.counts[sorted_indices[i]], WorkingPixels)]),
          counts |-> [i \in DOMAIN sorted_indices |-> km.counts[sorted_indices[i]]]]

\* The entries of a token map are kept in insertion order, as a dict keeps
\* them.  A key and a value are strings, written as the sequence of the pieces
\* that the f-string puts together.
\* role.lower().replace('/', '-')
RoleKey(role) ==
    CASE role = "Primary" -> "primary"
      [] role = "Background" -> "background"
      [] role = "Text/Dark" -> "text-dark"
      [] role = "Accent" -> "accent"
      [] role = "Secondary" -> "secondary"

\* tokens[key] = value on a dict: a key that is there keeps its place.
DictSet(tokens, key, token) ==
    IF \E i \in DOMAIN tokens : tokens[i].key = key
    THEN [i \in DOMAIN tokens |->
            IF tokens[i].key = key THEN [key |-> key, token |-> token] ELSE tokens[i]]
    ELSE Append(tokens, [key |-> key, token |-> token])

Keys(tokens) == {tokens[i].key : i \in DOMAIN tokens}

\* ColorExtractor.generate_design_tokens: key f"color-{role_key}-{i+1}"
ColorTokens(colors_list) ==
    LET Build[n \in 0..Len(colors_list)] ==
            IF n = 0 THEN <<>>
            ELSE DictSet(Build[n - 1],
                         <<"color", RoleKey(colors_list[n].role), n>>,
                         [value |-> <<colors_list[n].hex>>, type |-> "color",
                          comment |-> <<colors_list[n].name, " - ",
                                        colors_list[n].percentage, "% coverage">>])
    IN  Build[Len(colors_list)]

\* --------------------------------------------------------- PatternRecognizer

\* The most bounding boxes an image has.
MaxRects == 3

\* image.shape[1]
Widths == {30, 200}

\* cv2.boundingRect of the contours kept: the left edge x and the width w of a
\* box, which lies inside the image.
XValues == {0, 5, 20, 150}
WValues == {4, 25}

RectsOf(width) ==
    {r \in [x : XValues, w : WValues] : r.x + r.w <= width}

RectLists(width) ==
    UNION {[1..n -> RectsOf(width)] : n \in 0..MaxRects}

\* rects.sort(key=lambda x: x[0]): a stable sort by the left edge.
SortByX(rects) ==
    LET Insert(s, r) ==
            LET before == {i \in DOMAIN s : s[i].x <= r.x}
                k == Cardinality(before)
            IN  [i \in 1..(Len(s) + 1) |->
                    IF i <= k THEN s[i] ELSE IF i = k + 1 THEN r ELSE s[i - 1]]
        Sorted[n \in 0..Len(rects)] ==
            IF n = 0 THEN <<>> ELSE Insert(Sorted[n - 1], rects[n])
    IN  Sorted[Len(rects)]

\* The positive gaps between consecutive boxes, left to right.
Spacings(rects) ==
    LET Gap(i) == rects[i + 1].x - (rects[i].x + rects[i].w)
        Collect[n \in 0..Len(rects)] ==
            IF n <= 1 THEN <<>>
            ELSE IF Gap(n - 1) > 0 THEN Append(Collect[n - 1], Gap(n - 1))
            ELSE Collect[n - 1]
    IN  Collect[Len(rects)]

\* bins=range(0, 100, 4): the edges 0, 4, ..., 96
BinWidth == 4
BinStop == 100
LastEdge == ((BinStop - 1) \div BinWidth) * BinWidth
Bins == 0 .. (LastEdge \div BinWidth - 1)

\* np.histogram: a value outside [0, 96] is not counted, and the last bin
\* holds its upper edge too.
BinOf(v) == IF v = LastEdge THEN LastEdge \div BinWidth - 1 ELSE v \div BinWidth

Histogram(spacings) ==
    [b \in Bins |->
        Cardinality({i \in DOMAIN spacings :
                       spacings[i] >= 0 /\ spacings[i] <= LastEdge /\ BinOf(spacings[i]) = b})]

\* np.argmax: the first bin that holds the largest count.
ArgMax(hist) ==
    CHOOSE b \in DOMAIN hist :
        /\ \A c \in DOMAIN hist : hist[c] <= hist[b]
        /\ \A c \in DOMAIN hist : c < b => hist[c] < hist[b]

BaseUnit_unguarded(spacings) ==
    IF spacings # <<>>
    THEN ArgMax(Histogram(spacings)) * BinWidth
    ELSE 8

\* base_unit = 8, replaced by the lower edge of the modal bin when that edge is > 0
BaseUnit(spacings) ==
    IF spacings # <<>> /\ ArgMax(Histogram(spacings)) * BinWidth > 0
    THEN ArgMax(Histogram(spacings)) * BinWidth
    ELSE 8

SumOfWidths(rects) ==
    LET Sum[n \in 0..Len(rects)] == IF n = 0 THEN 0 ELSE Sum[n - 1] + rects[n].w
    IN  Sum[Len(rects)]

\* int(image.shape[1] / (avg_width + base_unit)) with avg_width the mean of the
\* box widths: width / (sum / n + base_unit), truncated.
RawColumns(width, rects, base_unit) ==
    (width * Len(rects)) \div (SumOfWidths(rects) + base_unit * Len(rects))

Columns_unclamped(width, rects, base_unit) ==
    IF Len(rects) > 2 THEN RawColumns(width, rects, base_unit) ELSE 12

\* cols = 12; if len(rects) > 2: cols = max(1, min(12, int(...)))
Columns(width, rects, base_unit) ==
    IF Len(rects) > 2
    THEN LET raw == RawColumns(width, rects, base_unit)
             capped == IF raw < 12 THEN raw ELSE 12
         IN  IF capped > 1 THEN capped ELSE 1
    ELSE 12

_default_patterns_base4 ==
    [spacing |-> [base_unit |-> 4,
                  spacing_scale |-> [xs |-> 2, sm |-> 4, md |-> 8],
                  total_gaps_analyzed |-> 0],
     grid |-> [columns |-> 12, gutter |-> 8, margin |-> 12]]

_default_patterns ==
    [spacing |-> [base_unit |-> 8,
                  spacing_scale |-> [xs |-> 4, sm |-> 8, md |-> 16],
                  total_gaps_analyzed |-> 0],
     grid |-> [columns |-> 12, gutter |-> 16, margin |-> 24]]

analyze_patterns(decodable, width, rects) ==
    IF ~decodable THEN _default_patterns
    ELSE LET sorted == SortByX(rects)
             spacings == Spacings(sorted)
             base_unit == BaseUnit(spacings)
         IN  [spacing |-> [base_unit |-> base_unit,
                           spacing_scale |-> [xs |-> base_unit \div 2, sm |-> base_unit,
                                              md |-> base_unit * 2, lg |-> base_unit * 4,
                                              xl |-> base_unit * 8],
                           total_gaps_analyzed |-> Len(spacings)],
              grid |-> [columns |-> Columns(width, sorted, base_unit),
                        gutter |-> base_unit * 2,
                        margin |-> base_unit * 3]]

\* The steps of a spacing scale in the order the dict literal lists them.
ScaleSteps == <<"xs", "sm", "md", "lg", "xl">>

\* PatternRecognizer.generate_design_tokens
PatternTokens(patterns) ==
    LET scale == patterns.spacing.spacing_scale
        Build[n \in 0..Len(ScaleSteps)] ==
            IF n = 0 THEN <<>>
            ELSE IF ScaleSteps[n] \in DOMAIN scale
            THEN DictSet(Build[n - 1], <<"spacing", ScaleSteps[n]>>,
                         [value |-> <<ToString(scale[ScaleSteps[n]]), "px">>,
                          type |-> "dimension"])
            ELSE Build[n - 1]
        cols == DictSet(Build[Len(ScaleSteps)], <<"grid", "cols">>,
                        [value |-> <<ToString(patterns.grid.columns)>>,
                         type |-> "integer"])
    IN  DictSet(cols, <<"grid", "gutter">>,
                [value |-> <<ToString(patterns.grid.gutter), "px">>,
                 type |-> "dimension"])

\* -------------------------------------------------------- TypographyAnalyzer

pairings_db ==
    <<[name |-> "Modern Sans", heading |-> "Inter", body |-> "Roboto",
       use_case |-> "UI"],
      [name |-> "Classic Serif", heading |-> "Playfair Display", body |-> "Lato",
       use_case |-> "Editorial"],
      [name |-> "Tech Mono", heading |-> "Space Grotesk", body |-> "JetBrains Mono",
       use_case |-> "Tech"]>>

\* np.mean(gray), around the thresholds 80, 128 and 200
Brightnesses == {79, 80, 128, 129, 200, 201}

\* The most text regions an image has.
MaxRegions == 2

\* idx = 2 if avg_brightness < 80 else (1 if avg_brightness > 200 else 0),
\* counted from 1 here
PairingIndex(avg_brightness) ==
    IF avg_brightness < 80 THEN 3 ELSE IF avg_brightness > 200 THEN 2 ELSE 1

\* (idx + 1) % 3, counted from 1
NextIndex(idx) == (idx % 3) + 1

_default_result ==
    [text_detected |-> FALSE,
     text_regions |-> 0,
     analysis |-> [dominant_weight |-> "Regular"],
     font_pairings |-> <<pairings_db[1]>>,
     font_suggestions |-> [heading |-> <<"Inter">>, body |-> <<"Roboto">>]]

analyze_typography(decodable, avg_brightness, text_regions) ==
    IF ~decodable THEN _default_result
    ELSE LET idx == PairingIndex(avg_brightness)
             selected == pairings_db[idx]
         IN  [text_detected |-> text_regions > 0,
              text_regions |-> text_regions,
              analysis |-> [dominant_weight |->
                               IF avg_brightness > 128 THEN "Regular" ELSE "Bold"],
              font_pairings |-> <<selected, pairings_db[NextIndex(idx)]>>,
              font_suggestions |-> [heading |-> <<selected.heading>>,
                                    body |-> <<selected.body>>]]

\* TypographyAnalyzer.generate_design_tokens
TypographyTokens(typography_data) ==
    LET pairings == typography_data.font_pairings
    IN  IF pairings = <<>> THEN <<>>
        ELSE <<[key |-> <<"font", "family", "heading">>,
                token |-> [value |-> <<pairings[1].heading>>, type |-> "fontFamily"]],
               [key |-> <<"font", "family", "body">>,
                token |-> [value |-> <<pairings[1].body>>, type |-> "fontFamily"]],
               [key |-> <<"font", "weight", "base">>,
                token |-> [value |-> <<"400">>, type |-> "fontWeight"]]>>

\* -------------------------------------------------------------- the exports

\* export_css_variables of the three classes: ":root {", one line
\* f"  --{name}: {token['value']};" per token, "}"
export_css_variables(tokens) ==
    <<<<":root {">>>>
    \o [i \in DOMAIN tokens |-> <<"  --", tokens[i].key, ": ", tokens[i].token.value, ";">>]
    \o <<<<"}">>>>

\* d[key] on a dict: the value, or KeyError
HasKey(tokens, key) == \E i \in DOMAIN tokens : tokens[i].key = key

GetItem(tokens, key) ==
    tokens[CHOOSE i \in DOMAIN tokens : tokens[i].key = key].token

\* The subscripts export_tokens_json evaluates, in order: the map and the key.
JsonLookups ==
    <<<<"color_tokens", "color">>,
      <<"pattern_tokens", "spacing">>,
      <<"pattern_tokens", "sizing">>,
      <<"pattern_tokens", "borderRadius">>,
      <<"pattern_tokens", "boxShadow">>,
      <<"pattern_tokens", "grid">>,
      <<"typography_tokens", "fontFamily">>,
      <<"typography_tokens", "fontSize">>,
      <<"typography_tokens", "fontWeight">>,
      <<"typography_tokens", "lineHeight">>,
      <<"typography_tokens", "letterSpacing">>,
      <<"color_tokens", "metadata">>>>

\* A value that may be None: <<>> is None, <<v>> is v.
Some(v) == <<v>>

\* current_results of the interface before any run, its fields holding values
\* instead of the names of runs.
NoContents ==
    [palette |-> <<>>, patterns |-> <<>>, typography |-> <<>>,
     color_tokens |-> <<>>, pattern_tokens |-> <<>>,
     typography_tokens |-> <<>>, file_id |-> <<>>]

\* export_tokens_json on a results bag whose color_tokens is set: the document,
\* or the KeyError of the first subscript that fails.
export_tokens_json(results) ==
    LET Found(n) == HasKey(results[JsonLookups[n][1]][1], <<JsonLookups[n][2]>>)
        failing == {n \in DOMAIN JsonLookups : ~Found(n)}
    IN  IF results.color_tokens = <<>>
        THEN [status |-> "no_tokens", missing |-> "", document |-> <<>>]
        ELSE IF failing # {}
        THEN [status |-> "KeyError",
              missing |-> JsonLookups[CHOOSE n \in failing :
                                         \A m \in failing : n <= m][2],
              document |-> <<>>]
        ELSE [status |-> "ok", missing |-> "",
              document |-> [n \in DOMAIN JsonLookups |->
                              [key |-> <<JsonLookups[n][2]>>,
                               token |-> GetItem(results[JsonLookups[n][1]][1],
                                                 <<JsonLookups[n][2]>>)]]]

\* export_css on a results bag: the three blocks, or the message
export_css(results) ==
    IF results.color_tokens = <<>>
    THEN [status |-> "no_tokens", css |-> <<>>]
    ELSE [status |-> "ok",
          css |-> <<<<"/* TESSERAE COMPLETE DESIGN SYSTEM */">>,
                    <<"/* Generated from moodboard analysis */">>,
                    <<"/* COLOR TOKENS */">>>>
                  \o export_css_variables(results.color_tokens[1])
                  \o <<<<"/* SPACING & LAYOUT */">>>>
                  \o export_css_variables(results.pattern_tokens[1])
                  \o <<<<"/* TYPOGRAPHY */">>>>
                  \o export_css_variables(results.typography_tokens[1])]

\* --------------------------------------------- the analyzers as operations

\* The clustering handed to a call that never reaches KMeans.
NoClustering == [counts |-> <<>>, centers |-> <<>>]

\* n clusters reported as k: the clusters past n hold no pixel.
Pad(km, k) ==
    [counts |-> [i \in 1..k |-> IF i \in DOMAIN km.counts THEN km.counts[i] ELSE 0],
     centers |-> [i \in 1..k |->
                    IF i \in DOMAIN km.centers THEN km.centers[i] ELSE <<0, 0, 0>>]]

Clusterings(decodable, k) ==
    IF decodable /\ k >= 1 THEN KMeansOutcomes(k) ELSE {NoClustering}

\* The calls of the analyzers: each starts from the call and what OpenCV and
\* KMeans report about its image, and ends with the result.
ExtractCalls ==
    UNION {{[op |-> "extract_palette", done |-> FALSE, decodable |-> c[1],
             n_colors |-> c[2], km |-> km, result |-> <<>>] :
               km \in Clusterings(c[1], c[2])} : c \in BOOLEAN \X KValues}

PatternCalls ==
    UNION {{[op |-> "analyze_patterns", done |-> FALSE, decodable |-> c[1],
             width |-> c[2], rects |-> r, result |-> <<>>] :
               r \in (IF c[1] THEN RectLists(c[2]) ELSE {<<>>})} :
           c \in BOOLEAN \X Widths}

TypographyCalls ==
    UNION {{[op |-> "analyze_typography", done |-> FALSE, decodable |-> c[1],
             avg_brightness |-> c[2], text_regions |-> n, result |-> <<>>] :
               n \in (IF c[1] THEN 0..MaxRegions ELSE {0})} :
           c \in BOOLEAN \X Brightnesses}

InitAnalyzers ==
    /\ clock = 0
    /\ files = <<>>
    /\ metadata = <<>>
    /\ current_results = NoContents
    /\ ret \in ExtractCalls \cup PatternCalls \cup TypographyCalls
    /\ uploads = 0
    /\ faults = 0
    /\ ingested = {}
    /\ swept = {}
    /\ threads = [t \in Threads |-> IdleThread]

ExtractPalette ==
    /\ ret.op = "extract_palette"
    /\ ~ret.done
    /\ \E sorted_indices \in SortedIndices(ret.km) :
          ret' = [ret EXCEPT !.done = TRUE,
                             !.result = extract_palette(ret.decodable, ret.n_colors,
                                                        ret.km, sorted_indices)]
    /\ UNCHANGED <<clock, files, metadata, current_results, uploads, faults, ingested,
                   swept, threads>>

AnalyzePatterns ==
    /\ ret.op = "analyze_patterns"
    /\ ~ret.done
    /\ ret' = [ret EXCEPT !.done = TRUE,
                          !.result = analyze_patterns(ret.decodable, ret.width, ret.rects)]
    /\ UNCHANGED <<clock, files, metadata, current_results, uploads, faults, ingested,
                   swept, threads>>

AnalyzeTypography ==
    /\ ret.op = "analyze_typography"
    /\ ~ret.done
    /\ ret' = [ret EXCEPT !.done = TRUE,
                          !.result = analyze_typography(ret.decodable, ret.avg_brightness,
                                                        ret.text_regions)]
    /\ UNCHANGED <<clock, files, metadata, current_results, uploads, faults, ingested,
                   swept, threads>>

NextAnalyzers ==
    \/ ExtractPalette
    \/ AnalyzePatterns
    \/ AnalyzeTypography

SpecAnalyzers == InitAnalyzers /\ [][NextAnalyzers]_vars

InitExport ==
    /\ clock = 0
    /\ files = <<>>
    /\ metadata = <<>>
    /\ current_results = NoContents
    /\ ret = [op |-> "none"]
    /\ uploads = 0
    /\ faults = 0
    /\ ingested = {}
    /\ swept = {}
    /\ threads = [t \in Threads |-> IdleThread]

\* The images handed to the interface.
Moodboards ==
    {[decodable |-> FALSE, width |-> 200, rects |-> <<>>, avg_brightness |-> 128,
      text_regions |-> 0],
     [decodable |-> TRUE, width |-> 200, rects |-> <<>>, avg_brightness |-> 79,
      text_regions |-> 0],
     [decodable |-> TRUE, width |-> 200,
      rects |-> <<[x |-> 0, w |-> 4], [x |-> 20, w |-> 4], [x |-> 150, w |-> 25]>>,
      avg_brightness |-> 201, text_regions |-> 1]}

\* What KMeans may report to the interface's extractor of 8 colours: here one
\* or two clusters hold all the pixels.
MoodboardClusterings ==
    {Pad(km, NColors) : km \in KMeansOutcomes(1) \cup KMeansOutcomes(2)}

\* process_moodboard with consent and an image whose ingest succeeds: the
\* ingest, the three analyzers, the three token maps and the seven assignments
\* to current_results.  extract_palette raising leaves current_results alone.
AnalyzeMoodboard(image, km, sorted_indices) ==
    LET img == uploads + 1
        r == Ingest(files, metadata, TempSource(max_size_bytes), img, "gradio_test_user",
                    clock, clock, "ok", "ok")
        palette == extract_palette(image.decodable, NColors, km, sorted_indices)
        color_tokens == ColorTokens(palette.colors)
        patterns == analyze_patterns(image.decodable, image.width, image.rects)
        pattern_tokens == PatternTokens(patterns)
        typography == analyze_typography(image.decodable, image.avg_brightness,
                                         image.text_regions)
        typography_tokens == TypographyTokens(typography)
    IN  /\ uploads < MaxUploads
        /\ uploads' = uploads + 1
        /\ files' = r.files
        /\ metadata' = r.metadata
        /\ ingested' = ingested \cup {Asset(r.file_id, img, clock)}
        /\ current_results' =
              IF palette.status = "ok"
              THEN [palette |-> Some(palette.colors),
                    patterns |-> Some(patterns),
                    typography |-> Some(typography),
                    color_tokens |-> Some(color_tokens),
                    pattern_tokens |-> Some(pattern_tokens),
                    typography_tokens |-> Some(typography_tokens),
                    file_id |-> r.file_id]
              ELSE current_results
        /\ ret' = [op |-> "process_moodboard",
                   status |-> IF palette.status = "ok" THEN "ok" ELSE "error"]
        /\ UNCHANGED <<clock, faults, swept, threads>>

ExportTokensJson ==
    /\ ret' = [op |-> "export_tokens_json", result |-> export_tokens_json(current_results)]
    /\ UNCHANGED <<clock, files, metadata, current_results, uploads, faults, ingested,
                   swept, threads>>

ExportCss ==
    /\ ret' = [op |-> "export_css", result |-> export_css(current_results)]
    /\ UNCHANGED <<clock, files, metadata, current_results, uploads, faults, ingested,
                   swept, threads>>

\* The analyze button and the two export buttons of the interface.
NextExport ==
    \/ \E image \in Moodboards :
          \E km \in (IF image.decodable THEN MoodboardClusterings ELSE {NoClustering}) :
             \E sorted_indices \in SortedIndices(km) :
                AnalyzeMoodboard(image, km, sorted_indices)
    \/ ExportTokensJson
    \/ ExportCss

SpecExport == InitExport /\ [][NextExport]_vars

\* ------------------------------- concurrent runs and exports of the interface
\* The handlers of the interface run in the threads of the web server.  A step
\* is the work of a run up to its first assignment to current_results, one
\* assignment to current_results, or one read of current_results by an export.

\* The fields of current_results in the order lines 83-89 assign them.
ResultFields ==
    <<"palette", "patterns", "typography", "color_tokens", "pattern_tokens",
      "typography_tokens", "file_id">>

FieldIndex(field) == CHOOSE i \in DOMAIN ResultFields : ResultFields[i] = field

\* What can happen to a run before its first assignment; the time it takes is
\* the time that passes between the steps.
RunOutcomes == {o \in MoodboardOutcomes : o.d = 0}

\* process_moodboard, lines 43-80, with consent and an image: the temporary
\* file, the ingest, the load and the three analyzers.
PM_Begin(t, o) ==
    LET img == uploads + 1
        src == TempSource(o.size)
        r == Ingest(files, metadata, src, img, "gradio_test_user", clock, clock,
                    o.copy, o.strip)
        copied == o.save /\ validate_image(src) = "Valid"
        fault == ~o.save \/ (copied /\ ~(o.copy = "ok" /\ o.strip = "ok" /\ o.decode))
        status ==
            IF ~o.save THEN "error"
            ELSE IF r.status = "raised" THEN "error"
            ELSE IF r.status # "success" THEN "upload_failed"
            ELSE IF ~o.decode THEN "error"
            ELSE "ok"
    IN  /\ Idle(t)
        /\ copied => uploads < MaxUploads
        /\ fault => faults < MaxFaults
        /\ faults' = IF fault THEN faults + 1 ELSE faults
        /\ uploads' = IF copied THEN uploads + 1 ELSE uploads
        /\ files' = IF o.save THEN r.files ELSE files
        /\ metadata' = IF o.save THEN r.metadata ELSE metadata
        /\ ingested' = IF o.save /\ r.status = "success"
                        THEN ingested \cup {Asset(r.file_id, img, clock)}
                        ELSE ingested
        /\ IF status = "ok"
           THEN /\ threads' = [threads EXCEPT ![t] =
                                 [IdleThread EXCEPT !.pc = ResultFields[1],
                                                    !.file_id = r.file_id,
                                                    !.img = img]]
                /\ UNCHANGED ret
           ELSE /\ ret' = Returned("process_moodboard", status)
                /\ UNCHANGED threads
        /\ UNCHANGED <<clock, current_results, swept>>

\* process_moodboard, lines 83-89: one assignment to current_results; the run
\* returns after the last one.
PM_Store(t) ==
    LET my == threads[t]
        i == FieldIndex(my.pc)
        value == IF my.pc = "file_id" THEN my.file_id ELSE my.img
    IN  /\ \E j \in DOMAIN ResultFields : ResultFields[j] = my.pc
        /\ current_results' = [current_results EXCEPT ![my.pc] = value]
        /\ IF i < Len(ResultFields)
           THEN /\ threads' = [threads EXCEPT ![t].pc = ResultFields[i + 1]]
                /\ UNCHANGED ret
           ELSE /\ threads' = [threads EXCEPT ![t] = IdleThread]
                /\ ret' = [Returned("process_moodboard", "ok")
                           EXCEPT !.file_id = my.file_id,
                                  !.image = Load(files, my.file_id)]
        /\ UNCHANGED <<clock, files, metadata, uploads, faults, ingested, swept>>

\* export_css, lines 248-251: the test of color_tokens and the read of it.
EX_Color(t) ==
    /\ Idle(t)
    /\ IF current_results.color_tokens = NoImage
       THEN /\ ret' = [op |-> "export_css", status |-> "no_tokens", tokens |-> <<>>]
            /\ UNCHANGED threads
       ELSE /\ threads' = [threads EXCEPT ![t] =
                             [IdleThread EXCEPT !.pc = "ex_pattern",
                                                !.tokens = <<current_results.color_tokens>>]]
            /\ UNCHANGED ret
    /\ UNCHANGED <<clock, files, metadata, current_results, uploads, faults, ingested,
                   swept>>

\* export_css, line 252: the read of pattern_tokens.
EX_Pattern(t) ==
    /\ threads[t].pc = "ex_pattern"
    /\ threads' = [threads EXCEPT
                     ![t].pc = "ex_typography",
                     ![t].tokens = Append(@, current_results.pattern_tokens)]
    /\ UNCHANGED <<clock, files, metadata, current_results, ret, uploads, faults,
                   ingested, swept>>

\* export_css, lines 253-271: the read of typography_tokens and the return.
EX_Typography(t) ==
    /\ threads[t].pc = "ex_typography"
    /\ ret' = [op |-> "export_css", status |-> "ok",
               tokens |-> Append(threads[t].tokens, current_results.typography_tokens)]
    /\ threads' = [threads EXCEPT ![t] = IdleThread]
    /\ UNCHANGED <<clock, files, metadata, current_results, uploads, faults, ingested,
                   swept>>

NextUIConc ==
    \/ \E t \in Threads, o \in RunOutcomes : PM_Begin(t, o)
    \/ \E t \in Threads : PM_Store(t)
    \/ \E t \in Threads : EX_Color(t)
    \/ \E t \in Threads : EX_Pattern(t)
    \/ \E t \in Threads : EX_Typography(t)
    \/ \E t \in ClockValues : Tick(t)

SpecUIConc == Init /\ [][NextUIConc]_vars

\* =================================================================== claims

ValidationErrors == {"NotFound", "TooLarge", "UnsupportedFormat", "Corrupt"}

\* C1: a run of the sweep that reads the clock as now removes no record whose
\* deletion_date is later than now and deletes no file of such a record,
\* whether the sweep runs alone or interleaved with other calls.
C1_SweepKeepsUnexpired ==
    [][/\ \A t \in Threads :
            /\ (threads[t].pc = "ce_scan" /\ threads'[t].pc = "ce_write") =>
                  \A f \in (DOMAIN files \ DOMAIN files') \cap DOMAIN metadata :
                     metadata[f].deletion_date <= threads'[t].now
            /\ (threads[t].pc = "ce_write" /\ threads'[t].pc = "idle") =>
                  \A f \in DOMAIN metadata \ DOMAIN metadata' :
                     metadata[f].deletion_date <= threads[t].now
       /\ (ret'.op = "cleanup_expired" /\ threads' = threads /\ clock' = clock) =>
             \A f \in ((DOMAIN files \ DOMAIN files') \cap DOMAIN metadata)
                        \cup (DOMAIN metadata \ DOMAIN metadata') :
                metadata[f].deletion_date <= ret'.now]_vars

\* C4: under every interleaving, the record of an ingest that returned success
\* is in the metadata store as long as the asset has not expired, and a record
\* that a sweep removed is not put back by a call that is not an ingest of
\* that file id.
C4_NoLostUpdate ==
    /\ [](\A a \in ingested :
            clock < a.upload_time + Retention => a.file_id \in DOMAIN metadata)
    /\ [][\A f \in swept \cap (DOMAIN metadata' \ DOMAIN metadata) :
             \E t \in Threads :
                threads[t].pc = "pu_write" /\ threads[t].file_id = f]_vars

\* C2: an asset ingested at time T is loadable at every time < T + 30 days and
\* is gone, record and file, after any sweep run at a time >= T + 30 days.
C2_RetainedThenSwept ==
    /\ \A a \in ingested :
          clock < a.upload_time + Retention => Load(files, a.file_id) = a.img
    /\ ret.op = "cleanup_expired" =>
          \A a \in ingested :
             a.upload_time + Retention <= ret.now =>
                a.file_id \notin DOMAIN files /\ a.file_id \notin DOMAIN metadata

C5_RecordOnlyAfterCopyAndStrip ==
    [][\A f \in DOMAIN metadata' :
          (f \notin DOMAIN metadata \/ metadata'[f] # metadata[f])
          => (/\ f \in DOMAIN files'
              /\ files'[f].img = metadata'[f].info
              /\ files'[f].readable
              /\ files'[f].stripped)]_vars

\* C6: a process_moodboard call without consent returns the refusal status and
\* leaves the managed directory, the metadata store and current_results as
\* they are.
C6_RefusesWithoutConsent ==
    /\ []((ret.op = "process_moodboard" /\ ~ret.consent)
            => ret.status = "consent_required")
    /\ [][(ret'.op = "process_moodboard" /\ ~ret'.consent)
           => (/\ files' = files
               /\ metadata' = metadata
               /\ current_results' = current_results)]_vars

\* A call without consent was refused after an earlier run had stored results.
C6_Witness ==
    /\ ret.op = "process_moodboard"
    /\ ~ret.consent
    /\ ret.status = "consent_required"
    /\ current_results # NoResults
    /\ DOMAIN files # {}
    /\ DOMAIN metadata # {}

\* C7: two distinct successful ingests never receive the same file id.
C7_UniqueFileIds ==
    \A a, b \in ingested : a # b => a.file_id # b.file_id

\* The first half of C8: deletion_date is upload_time plus 30 days.
C8_DeletionDateInvariant ==
    \A f \in DOMAIN metadata :
       metadata[f].deletion_date = metadata[f].upload_time + Retention

\* C8: every record has deletion_date = upload_time + 30 days, and no step
\* changes a record that is in the store.
C8_RecordsImmutable ==
    /\ []C8_DeletionDateInvariant
    /\ [][\A f \in DOMAIN metadata \cap DOMAIN metadata' :
             metadata'[f] = metadata[f]]_vars

\* The reason of a rejected ingest is the first failing check of its source.
C9_ReasonMatches ==
    (ret.op = "process_upload" /\ ret.rejected # <<>>) =>
       LET src == ret.rejected[1]
           ext_ok == Lower(Suffix(src.name)) \in {".jpg", ".jpeg", ".png", ".webp"}
           size_ok == src.size <= 10 * 1024 * 1024
       IN  /\ ret.status \in ValidationErrors
           /\ ret.status = "NotFound" <=> ~src.exists
           /\ ret.status = "TooLarge" <=> (src.exists /\ ~size_ok)
           /\ ret.status = "UnsupportedFormat" <=> (src.exists /\ size_ok /\ ~ext_ok)
           /\ ret.status = "Corrupt" <=>
                 (src.exists /\ size_ok /\ ext_ok /\ ~src.verifies)

\* C9: validation reports the first failing check in the order NotFound,
\* TooLarge, UnsupportedFormat, Corrupt, rejects nothing that passes all four,
\* and an ingest that validation rejects returns that reason and leaves the
\* managed directory and the metadata store unchanged.
C9_ValidationErrors ==
    /\ []C9_ReasonMatches
    /\ [][(ret'.op = "process_upload" /\ ret'.status \in ValidationErrors)
           => (files' = files /\ metadata' = metadata)]_vars

\* An ingest was rejected as corrupt while the store held an asset.
C9_Witness ==
    /\ ret.op = "process_upload"
    /\ ret.status = "Corrupt"
    /\ ret.rejected # <<>>
    /\ DOMAIN metadata # {}
    /\ DOMAIN files # {}

\* C10: load returns no image for an asset whose deletion_date is at or before
\* the current time.
C10_ExpiredNotLoadable ==
    \A f \in DOMAIN metadata :
       metadata[f].deletion_date <= clock => Load(files, f) = NoImage

\* The sum of the percentages of a palette, in tenths of a percent.
PercentageSum(colors) ==
    LET Sum[n \in 0..Len(colors)] ==
            IF n = 0 THEN 0 ELSE Sum[n - 1] + colors[n].percentage
    IN  Sum[Len(colors)]

\* The second half of C11: the percentages of a palette sum to 100 within
\* 0.1 * k.
C11_PercentagesSum ==
    (ret.op = "extract_palette" /\ ret.done /\ ret.result.status = "ok") =>
       /\ PercentageSum(ret.result.colors) >= 1000 - ret.n_colors
       /\ PercentageSum(ret.result.colors) <= 1000 + ret.n_colors

\* C11: extract on a decodable image with k >= 1 returns exactly k swatches
\* whose percentages sum to 100 within 0.1 * k, whatever the number of pixels
\* that KMeans gives each cluster, none included.
C11_ExactlyKSwatches ==
    (ret.op = "extract_palette" /\ ret.done /\ ret.decodable /\ ret.n_colors >= 1) =>
       /\ ret.result.status = "ok"
       /\ Len(ret.result.colors) = ret.n_colors
       /\ C11_PercentagesSum

\* C12: the swatches of a returned palette are in descending order of pixel
\* count and of percentage, and the first one, which no other exceeds, has
\* role Primary whatever its lightness and saturation.
C12_PrimaryFirst ==
    (ret.op = "extract_palette" /\ ret.done /\ ret.result.status = "ok") =>
       LET colors == ret.result.colors
           counts == ret.result.counts
       IN  /\ colors # <<>>
           /\ \A i, j \in DOMAIN colors :
                 i < j => /\ counts[i] >= counts[j]
                          /\ colors[i].percentage >= colors[j].percentage
           /\ \E i \in DOMAIN colors :
                 /\ \A j \in DOMAIN colors : colors[j].percentage <= colors[i].percentage
                 /\ colors[i].role = "Primary"
           /\ colors[1].role = "Primary"

\* A palette of two swatches whose larger is white, which lightness alone
\* would make Background.
C12_Witness ==
    /\ ret.op = "extract_palette"
    /\ ret.done
    /\ ret.result.status = "ok"
    /\ Len(ret.result.colors) = 2
    /\ ret.result.colors[1].hex = "#ffffff"
    /\ ret.result.colors[1].hsl.l > 90
    /\ ret.result.colors[1].role = "Primary"
    /\ ret.result.colors[1].percentage > ret.result.colors[2].percentage

\* C14: on an image that cv2.imread cannot decode, analyze_patterns returns a
\* profile with base_unit 8 and 12 columns and analyze_typography returns one
\* with no text detected and the first catalog entry; neither raises.
C14_DefaultsOnUndecodable ==
    /\ (ret.op = "analyze_patterns" /\ ret.done /\ ~ret.decodable) =>
          /\ ret.result.spacing.base_unit = 8
          /\ ret.result.grid.columns = 12
    /\ (ret.op = "analyze_typography" /\ ret.done /\ ~ret.decodable) =>
          /\ ~ret.result.text_detected
          /\ ret.result.text_regions = 0
          /\ ret.result.font_pairings[1].name = "Modern Sans"
          /\ ret.result.font_suggestions.heading = <<"Inter">>
          /\ ret.result.font_suggestions.body = <<"Roboto">>

\* analyze_patterns has returned for an image that could not be decoded.
C14_Witness ==
    /\ ret.op = "analyze_patterns"
    /\ ret.done
    /\ ~ret.decodable
    /\ ret.result.spacing.total_gaps_analyzed = 0
    /\ ret.result.grid.gutter = 16

\* C15: every profile analyze_patterns returns has a spacing scale of the five
\* steps xs = base_unit // 2, sm = base_unit, md = 2 * base_unit,
\* lg = 4 * base_unit and xl = 8 * base_unit.
C15_SpacingScale ==
    (ret.op = "analyze_patterns" /\ ret.done) =>
       LET scale == ret.result.spacing.spacing_scale
           base_unit == ret.result.spacing.base_unit
       IN  /\ DOMAIN scale = {"xs", "sm", "md", "lg", "xl"}
           /\ scale.xs = base_unit \div 2
           /\ scale.sm = base_unit
           /\ scale.md = 2 * base_unit
           /\ scale.lg = 4 * base_unit
           /\ scale.xl = 8 * base_unit

\* C16: every profile analyze_typography returns lists exactly two distinct
\* catalog entries: the one selected by brightness (below 80 the third, above
\* 200 the second, else the first) and the entry after it, wrapping around.
C16_TwoPairings ==
    (ret.op = "analyze_typography" /\ ret.done) =>
       LET pairings == ret.result.font_pairings
       IN  /\ Len(pairings) = 2
           /\ pairings[1] # pairings[2]
           /\ \E idx \in 1..3 :
                 /\ pairings[1] = pairings_db[idx]
                 /\ pairings[2] = pairings_db[IF idx = 3 THEN 1 ELSE idx + 1]
                 /\ ret.decodable =>
                       idx = (IF ret.avg_brightness < 80 THEN 3
                              ELSE IF ret.avg_brightness > 200 THEN 2 ELSE 1)

\* C17: the columns of every profile analyze_patterns returns is an integer
\* from 1 to 12, and it is 12 when fewer than 3 bounding boxes were found.
C17_ColumnsInRange ==
    (ret.op = "analyze_patterns" /\ ret.done) =>
       /\ ret.result.grid.columns \in 1..12
       /\ Len(ret.rects) < 3 => ret.result.grid.columns = 12

\* Three boxes of width 4 in an image of width 200: 200 / (4 + 8) is 16, and
\* the profile has 12 columns.
C17_Witness ==
    /\ ret.op = "analyze_patterns"
    /\ ret.done
    /\ ret.decodable
    /\ ret.width = 200
    /\ Len(ret.rects) = 3
    /\ \A i \in DOMAIN ret.rects : ret.rects[i].w = 4 /\ ret.rects[i].x = 0
    /\ ret.result.spacing.base_unit = 8
    /\ ret.result.grid.columns = 12

\* C18: extract_palette with n_colors <= 0 fails with InvalidArgument before
\* it has decoded, resized or clustered anything.
C18_RejectsNonPositiveK ==
    (ret.op = "extract_palette" /\ ret.done /\ ret.n_colors <= 0) =>
       /\ ret.result.status = "InvalidArgument"
       /\ ret.result.work = <<>>

\* The tokens of the set synthesized by the last successful run.
SynthesizedTokens ==
    {current_results.color_tokens[1][i] : i \in DOMAIN current_results.color_tokens[1]}
    \cup {current_results.pattern_tokens[1][i] : i \in DOMAIN current_results.pattern_tokens[1]}
    \cup {current_results.typography_tokens[1][i] :
             i \in DOMAIN current_results.typography_tokens[1]}

\* The first half of C13: the stylesheet export holds exactly one line
\* --<key>: <value>; for every token.
C13_StylesheetLines ==
    (ret.op = "export_css" /\ current_results.color_tokens # <<>>) =>
       /\ ret.result.status = "ok"
       /\ \A e \in SynthesizedTokens :
             Cardinality({i \in DOMAIN ret.result.css :
                            ret.result.css[i] = <<"  --", e.key, ": ", e.token.value, ";">>}) = 1

\* C13: after a successful process_moodboard the stylesheet export holds
\* exactly one line --<key>: <value>; for every token of the three maps, and
\* the JSON export succeeds and holds every token's key with its value.
C13_ExportRoundTrip ==
    /\ C13_StylesheetLines
    /\ (ret.op = "export_tokens_json" /\ current_results.color_tokens # <<>>) =>
          /\ ret.result.status = "ok"
          /\ \A e \in SynthesizedTokens :
                \E i \in DOMAIN ret.result.document :
                   /\ ret.result.document[i].key = e.key
                   /\ ret.result.document[i].token.value = e.token.value

\* C19: after every ingest and every sweep, a failed ingest included, the
\* managed directory and the metadata store hold the same file ids: every
\* record has a file and every file has a record.
C19_DirectoryMatchesStore ==
    /\ \A f \in DOMAIN metadata : f \in DOMAIN files
    /\ \A f \in DOMAIN files : f \in DOMAIN metadata

\* The fields of a results bag are all unset or all of one run.
OfOneRun(results) ==
    \/ results = NoResults
    \/ \E a \in ingested : results = StoredResults(a.img, a.file_id)

\* C20: in every state, under every interleaving of runs and exports and after
\* every failed run, the fields of current_results are all unset or all those
\* of one run, and the three token maps an export has combined are those of
\* one image.
C20_ResultsOfOneRun ==
    /\ OfOneRun(current_results)
    /\ (ret.op = "export_css" /\ ret.status = "ok") =>
          \A i, j \in DOMAIN ret.tokens : ret.tokens[i] = ret.tokens[j]

\* The positive gaps between the boxes of the call in ret, left to right.
GapsFound == Spacings(SortByX(ret.rects))

\* The number of the gaps that lie in [lo, hi].
GapsWithin(lo, hi) ==
    Cardinality({i \in DOMAIN GapsFound : lo <= GapsFound[i] /\ GapsFound[i] <= hi})

\* C21 as stated: base_unit is the lower edge of a bin of width 4 that holds
\* the most positive gaps, and it is the default 8 when there is no positive
\* gap.
C21_ModalBinEdge ==
    (ret.op = "analyze_patterns" /\ ret.done /\ ret.decodable) =>
       IF GapsFound = <<>>
       THEN ret.result.spacing.base_unit = 8
       ELSE \E i \in DOMAIN GapsFound :
               LET edge == (GapsFound[i] \div 4) * 4
               IN  /\ \A j \in DOMAIN GapsFound :
                         GapsWithin((GapsFound[j] \div 4) * 4, (GapsFound[j] \div 4) * 4 + 3)
                            <= GapsWithin(edge, edge + 3)
                   /\ ret.result.spacing.base_unit = edge

\* C21 as amended: the bins are [0, 4), [4, 8), ..., [88, 92), [92, 96] and a
\* gap above 96 is in none; base_unit is the lower edge of the first bin that
\* holds the most gaps when that edge is above 0, and the default 8 otherwise.
C21_ModalBinEdgeOrDefault ==
    (ret.op = "analyze_patterns" /\ ret.done /\ ret.decodable) =>
       LET Count(b) == IF b = 23 THEN GapsWithin(92, 96)
                       ELSE GapsWithin(4 * b, 4 * b + 3)
           modal == CHOOSE b \in 0..23 :
                       /\ \A c \in 0..23 : Count(c) <= Count(b)
                       /\ \A c \in 0..(b - 1) : Count(c) < Count(b)
       IN  /\ modal > 0 => ret.result.spacing.base_unit = 4 * modal
           /\ modal = 0 => ret.result.spacing.base_unit = 8
           /\ ret.result.spacing.total_gaps_analyzed = Len(GapsFound)

\* Boxes with the gaps 16 and 126: the gap of 126 is in no bin, and base_unit
\* is 16.
C21_Witness ==
    /\ ret.op = "analyze_patterns"
    /\ ret.done
    /\ ret.decodable
    /\ ret.rects = <<[x |-> 0, w |-> 4], [x |-> 20, w |-> 4], [x |-> 150, w |-> 4]>>
    /\ GapsFound = <<16, 126>>
    /\ ret.result.spacing.base_unit = 16

====
